---- MODULE Spec2Model ----
(***************************************************************************)
(* Model of src/core/_sklearn.py (class SKLearnForQlik): the class-level   *)
(* model cache, the persisted snapshots and the request handlers setup,    *)
(* set_features, get_features, fit, predict, get_features_expression and   *)
(* list_models, and the class-level counter of the debug logs.             *)
(***************************************************************************)
EXTENDS Integers, Sequences, FiniteSets, TLC

VARIABLES
    model_cache,   \* SKLearnForQlik.model_cache: the OrderedDict, oldest first,
                   \* as a sequence of [key, value] items
    store,         \* the snapshots on disk: model name -> persisted model
    response,      \* how the last call ended, and what it returned
    nCalls,        \* number of calls made so far
    trained,       \* history: names whose last successful configure was followed
                   \* by a successful train
    accessed,      \* history: the cache accesses made, oldest first
    evicted,       \* history: names in the order they left the cache
    calls,         \* in-flight concurrent calls: thread -> call frame
    log_no,        \* SKLearnForQlik.log_no: the counter that names the log files
    logfiles       \* the numbers n of the files 'SKLearn Log n.txt' written so far

vars == <<model_cache, store, response, nCalls, trained, accessed, evicted, calls,
          log_no, logfiles>>

(***************************************************************************)
(* Bounds of the model                                                     *)
(***************************************************************************)
MaxCalls == 4
MaxWidth == 3
MaxAccesses == 5
MaxRows == 2
NumThreads == 2

(***************************************************************************)
(* Program constants                                                       *)
(***************************************************************************)
cache_limit == 3

NameOrder == <<"m1", "m2", "m3", "m4", "m5">>
Names == {NameOrder[i] : i \in 1..Len(NameOrder)}


\* self.algorithms (names only: the classes are external)
algorithms ==
    {"DummyClassifier", "DummyRegressor", "AdaBoostClassifier", "AdaBoostRegressor",
     "BaggingClassifier", "BaggingRegressor", "ExtraTreesClassifier",
     "ExtraTreesRegressor", "GradientBoostingClassifier", "GradientBoostingRegressor",
     "RandomForestClassifier", "RandomForestRegressor", "VotingClassifier",
     "GaussianProcessClassifier", "GaussianProcessRegressor", "LinearRegression",
     "LogisticRegression", "LogisticRegressionCV", "PassiveAggressiveClassifier",
     "PassiveAggressiveRegressor", "Perceptron", "RANSACRegressor", "Ridge",
     "RidgeClassifier", "RidgeCV", "RidgeClassifierCV", "SGDClassifier",
     "SGDRegressor", "TheilSenRegressor", "BernoulliNB", "GaussianNB",
     "MultinomialNB", "KNeighborsClassifier", "KNeighborsRegressor",
     "RadiusNeighborsClassifier", "RadiusNeighborsRegressor", "BernoulliRBM",
     "MLPClassifier", "MLPRegressor", "LinearSVC", "LinearSVR", "NuSVC", "NuSVR",
     "SVC", "SVR", "DecisionTreeClassifier", "DecisionTreeRegressor",
     "ExtraTreeClassifier", "ExtraTreeRegressor"}

\* self.decomposers
decomposers == {"PCA", "KernelPCA", "IncrementalPCA", "TruncatedSVD"}

(***************************************************************************)
(* Values                                                                  *)
(***************************************************************************)
Unset == "unset"          \* an attribute that was never assigned

\* model.features_df: never assigned, or a frame of feature definitions;
\* sort_order tells whether the frame has the column get_features adds
NoFeatures == [defined |-> FALSE, rows |-> <<>>, sort_order |-> FALSE]
Frame(rows) == [defined |-> TRUE, rows |-> rows, sort_order |-> FALSE]

\* model.pipe: never assigned, or a Pipeline with its step names
NoPipe == [built |-> FALSE, steps |-> <<>>, fitted |-> FALSE]

\* PersistentModel(): a model none of whose attributes is set yet
PersistentModel ==
    [name |-> Unset, estimator |-> Unset, scaler |-> Unset, reduction |-> Unset,
     dim_reduction |-> FALSE, features_df |-> NoFeatures, pipe |-> NoPipe,
     estimation_step |-> 0, score |-> Unset, debug |-> FALSE,
     overwrite |-> FALSE, test_size |-> 0, random_state |-> 0, compress |-> 0,
     retain_data |-> FALSE]

\* A parsed argument string (utils.get_kwargs): a set of <<key, value>> pairs
\* with one pair per key; the empty string is the empty set.
HasArg(args, k) == \E p \in args : p[1] = k
Arg(args, k) == (CHOOSE p \in args : p[1] = k)[2]


(***************************************************************************)
(* OrderedDict operations on model_cache                                   *)
(***************************************************************************)
Keys(c) == {c[i].key : i \in 1..Len(c)}
KeySeq(c) == [i \in 1..Len(c) |-> c[i].key]
Index(c, k) == CHOOSE i \in 1..Len(c) : c[i].key = k
Get(c, k) == c[Index(c, k)].value
\* popitem(), which takes the newest item
PopNewest(c) == SubSeq(c, 1, Len(c) - 1)

\* popitem(last=False)
PopOldest(c) == Tail(c)
\* del d[k]
Del(c, k) == SelectSeq(c, LAMBDA it : it.key # k)
\* d[k] = v that adds an item whether or not the key is there
SetItemAppend(c, k, v) == Append(c, [key |-> k, value |-> v])

\* d[k] = v: a new key goes to the end, an existing key keeps its place
SetItem(c, k, v) ==
    IF k \in Keys(c)
    THEN [i \in 1..Len(c) |-> IF c[i].key = k THEN [key |-> k, value |-> v] ELSE c[i]]
    ELSE Append(c, [key |-> k, value |-> v])

(***************************************************************************)
(* The persistent store (PersistentModel.save / load of _machine_learning) *)
(***************************************************************************)
\* model.save(name, path, compress): the snapshot of `name` becomes `model`
save(st, model) ==
    [n \in DOMAIN st \cup {model.name} |-> IF n = model.name THEN model ELSE st[n]]

\* model.load(name, path): the snapshot, or a failure when there is none
load(st, name) ==
    IF name \in DOMAIN st THEN [ok |-> TRUE, model |-> st[name]]
    ELSE [ok |-> FALSE, model |-> PersistentModel]

(***************************************************************************)
(* _update_cache and _get_model                                            *)
(***************************************************************************)
\* _update_cache without lines 762-764: nothing is ever evicted
_update_cache_no_evict(c, model) ==
    SetItem(IF model.name \in Keys(c) THEN Del(c, model.name) ELSE c,
            model.name, model)

_update_cache(c, model) ==
    LET c1 == IF cache_limit = Len(c) THEN PopOldest(c) ELSE c
        c2 == IF model.name \in Keys(c1) THEN Del(c1, model.name) ELSE c1
    IN  SetItem(c2, model.name, model)

\* _get_model that goes on to _update_cache when load found no snapshot
_get_model_put_missing(c, st, name, log_fail) ==
    IF name \in Keys(c)
    THEN [ok |-> ~(Get(c, name).debug /\ log_fail = 6), found |-> TRUE,
          model |-> Get(c, name), cache |-> c]
    ELSE LET l == load(st, name)
             blank == [PersistentModel EXCEPT !.name = name]
         IN  IF ~l.ok
             THEN [ok |-> FALSE, found |-> FALSE, model |-> blank,
                   cache |-> _update_cache(c, blank)]
             ELSE IF l.model.debug /\ log_fail = 7
                  THEN [ok |-> FALSE, found |-> TRUE, model |-> l.model, cache |-> c]
             ELSE [ok |-> ~(l.model.debug /\ log_fail = 8), found |-> TRUE,
                   model |-> l.model, cache |-> _update_cache(c, l.model)]

\* [ok, found, model, cache]: whether the call goes on, whether a model was
\* found, the model, and the cache afterwards.  log_fail is the step of
\* _print_log whose write fails (0: none does), which a model with debug set
\* reaches at line 744 (step 6), line 751 (step 7) and line 775 (step 8)
_get_model(c, st, name, log_fail) ==
    IF name \in Keys(c)
    THEN [ok |-> ~(Get(c, name).debug /\ log_fail = 6), found |-> TRUE,
          model |-> Get(c, name), cache |-> c]
    ELSE LET l == load(st, name)
         IN  IF ~l.ok
             THEN [ok |-> FALSE, found |-> FALSE, model |-> l.model, cache |-> c]
             ELSE IF l.model.debug /\ log_fail = 7
                  THEN [ok |-> FALSE, found |-> TRUE, model |-> l.model, cache |-> c]
             ELSE [ok |-> ~(l.model.debug /\ log_fail = 8), found |-> TRUE,
                   model |-> l.model, cache |-> _update_cache(c, l.model)]

\* self.model is the object the cache holds: an assignment to one of its
\* attributes shows in the cache at once
Assign(c, model) ==
    IF model.name \in Keys(c) THEN SetItem(c, model.name, model) ELSE c

(***************************************************************************)
(* _set_params                                                             *)
(***************************************************************************)
\* str.lower() on the values an argument string gives for a flag
Lower(v) == IF v \in {"TRUE", "True", "true"} THEN "true"
            ELSE IF v \in {"FALSE", "False", "false"} THEN "false"
            ELSE v

\* locale.atof on the numerals the requests use, in hundredths
atof(v) == CASE v = "0.33" -> 33 [] v = "0.5" -> 50 [] v = "0.25" -> 25

\* locale.atoi on the numerals the requests use
atoi(v) == CASE v = "3" -> 3 [] v = "7" -> 7 [] v = "9" -> 9 [] v = "42" -> 42

\* _set_params, lines 566 and 603-604: model.debug
DebugOf(execution_args) ==
    HasArg(execution_args, "debug") /\ "true" = Lower(Arg(execution_args, "debug"))

\* lines 565-604 where retain_data is read from the key 'overwrite'
ExecutionParamsOneFlag(execution_args) ==
    [overwrite |-> HasArg(execution_args, "overwrite")
                   /\ "true" = Lower(Arg(execution_args, "overwrite")),
     debug |-> DebugOf(execution_args),
     test_size |-> IF HasArg(execution_args, "test_size")
                   THEN atof(Arg(execution_args, "test_size")) ELSE 33,
     random_state |-> IF HasArg(execution_args, "random_state")
                      THEN atoi(Arg(execution_args, "random_state")) ELSE 42,
     compress |-> IF HasArg(execution_args, "compress")
                  THEN atoi(Arg(execution_args, "compress")) ELSE 3,
     retain_data |-> HasArg(execution_args, "overwrite")
                     /\ "true" = Lower(Arg(execution_args, "overwrite"))]

\* _set_params, lines 565-604: the execution parameters, each its default
\* unless execution_args has its key; test_size is held in hundredths
ExecutionParams(execution_args) ==
    [overwrite |-> HasArg(execution_args, "overwrite")
                   /\ "true" = Lower(Arg(execution_args, "overwrite")),
     debug |-> DebugOf(execution_args),
     test_size |-> IF HasArg(execution_args, "test_size")
                   THEN atof(Arg(execution_args, "test_size")) ELSE 33,
     random_state |-> IF HasArg(execution_args, "random_state")
                      THEN atoi(Arg(execution_args, "random_state")) ELSE 42,
     compress |-> IF HasArg(execution_args, "compress")
                  THEN atoi(Arg(execution_args, "compress")) ELSE 3,
     retain_data |-> HasArg(execution_args, "retain_data")
                     /\ "true" = Lower(Arg(execution_args, "retain_data"))]

\* [ok, model]: ok is FALSE when _print_exception is reached, which raises,
\* or when the write of _print_log(1) or _print_log(2) fails
_set_params(model, estimator_args, scaler_args, execution_args, dim_reduction, dim_reduction_args, log_fail) ==
    LET e == ExecutionParams(execution_args)
        m0 == [model EXCEPT !.overwrite = e.overwrite, !.debug = e.debug,
                            !.test_size = e.test_size,
                            !.random_state = e.random_state,
                            !.compress = e.compress, !.retain_data = e.retain_data]
        scalerOk == scaler_args = {} \/ HasArg(scaler_args, "scaler")
        m1 == IF scaler_args # {} /\ scalerOk
              THEN [m0 EXCEPT !.scaler = Arg(scaler_args, "scaler")]
              ELSE m0
        estimatorOk == estimator_args = {} \/ HasArg(estimator_args, "estimator")
        m2 == IF estimator_args # {} /\ estimatorOk
              THEN [m1 EXCEPT !.estimator = Arg(estimator_args, "estimator")]
              ELSE m1
        reductionOk == ~dim_reduction \/ HasArg(dim_reduction_args, "reduction")
        m3 == IF dim_reduction /\ reductionOk
              THEN [m2 EXCEPT !.reduction = Arg(dim_reduction_args, "reduction")]
              ELSE m2
        logOk == ~(e.debug /\ log_fail \in {1, 2})
    IN  [ok |-> scalerOk /\ estimatorOk /\ reductionOk /\ logOk, model |-> m3]

(***************************************************************************)
(* Outcome of a handler: the cache, the store, the number of log files the *)
(* call opened and wrote, and the response.  response.out is what the      *)
(* caller is sent, in order: the table descriptions, named by their        *)
(* variant, and then "rows" for the row data                               *)
(***************************************************************************)
Raise(c, st, op, name) ==
    [cache |-> c, store |-> st, logs |-> 0, files |-> 0,
     response |-> [op |-> op, name |-> name, ok |-> FALSE, rows |-> <<>>,
                   out |-> <<>>]]
Return(c, st, op, name, table, rows) ==
    [cache |-> c, store |-> st, logs |-> 0, files |-> 0,
     response |-> [op |-> op, name |-> name, ok |-> TRUE, rows |-> rows,
                   out |-> table \o <<"rows">>]]

\* _send_table_description that sends nothing
_send_table_description_none(variant) == <<>>

\* _send_table_description(variant): one send_initial_metadata with the table
\* of the variant
_send_table_description(variant) == <<variant>>

\* The instance of a call on a model with debug set takes one log number: at
\* lines 609-613 in _set_params, else in its first _print_log (lines 783-789),
\* whose step is `first`; the file exists once a write succeeded
OpenLog(debug, first, log_fail, o) ==
    [o EXCEPT !.logs = IF debug THEN 1 ELSE 0,
              !.files = IF debug /\ log_fail # first THEN 1 ELSE 0]

\* The first _print_log of a call that looks its model up: lines 744 and 751
FirstStep(c, name) == IF name \in Keys(c) THEN 6 ELSE 7

\* The end of a handler.  steps are the steps of _print_log it makes from its
\* last _update_cache on; step 4 follows _send_table_description, so that a
\* write that fails there ends the call after the table description was sent
Respond(c, st, op, name, table, rows, steps, log_fail) ==
    IF log_fail \in steps \ {4} THEN Raise(c, st, op, name)
    ELSE IF log_fail = 4
         THEN [Raise(c, st, op, name) EXCEPT !.response.out = table]
    ELSE Return(c, st, op, name, table, rows)

IsTarget(f) == f.variable_type = "target"
IsExcluded(f) == f.variable_type \in {"excluded", "target", "identifier"}
IsKept(f) == ~IsExcluded(f)
FeatureNames(rows) == [i \in 1..Len(rows) |-> rows[i].name]

\* sklearn.pipeline.Pipeline has no method insert: the call raises
PipelineInsert(pipe, pos, step) == [ok |-> FALSE, pipe |-> pipe]

\* list_models(): the names of the snapshots that match the pattern, where an
\* empty pattern stands for '*'; no table description is sent
list_models(c, st, search_pattern) ==
    LET pattern == IF search_pattern = "" THEN "*" ELSE search_pattern
        found == SelectSeq(NameOrder,
                           LAMBDA n : n \in DOMAIN st /\ (pattern = "*" \/ pattern = n))
    IN  [cache |-> c, store |-> st, logs |-> 0, files |-> 0,
         response |-> [op |-> "list_models", name |-> Unset, ok |-> TRUE,
                       rows |-> found, out |-> <<"rows">>]]

\* setup without line 180: the model is saved and the cache left as it was
setup_no_put(c, st, name, estimator_args, scaler_args, execution_args, dim_reduction, dim_reduction_args, log_fail) ==
    LET m0 == [PersistentModel EXCEPT !.name = name]
        p == _set_params(m0, estimator_args, scaler_args, execution_args,
                         dim_reduction, dim_reduction_args, log_fail)
        m == [p.model EXCEPT !.dim_reduction = dim_reduction]
        lf == IF m.debug THEN log_fail ELSE 0
    IN  OpenLog(m.debug, 1, log_fail,
                IF ~p.ok THEN Raise(c, st, "setup", name)
                ELSE Respond(c, save(st, m), "setup", name,
                             _send_table_description("setup"), <<name>>, {5, 4}, lf))

\* setup without line 177: the model is cached and no snapshot written
setup_no_save(c, st, name, estimator_args, scaler_args, execution_args, dim_reduction, dim_reduction_args, log_fail) ==
    LET m0 == [PersistentModel EXCEPT !.name = name]
        p == _set_params(m0, estimator_args, scaler_args, execution_args,
                         dim_reduction, dim_reduction_args, log_fail)
        m == [p.model EXCEPT !.dim_reduction = dim_reduction]
        lf == IF m.debug THEN log_fail ELSE 0
    IN  OpenLog(m.debug, 1, log_fail,
                IF ~p.ok THEN Raise(c, st, "setup", name)
                ELSE Respond(_update_cache(c, m), st, "setup", name,
                             _send_table_description("setup"), <<name>>, {8, 5, 4}, lf))

\* setup that keeps the model a name has unless overwrite is set
setup_keep(c, st, name, estimator_args, scaler_args, execution_args, dim_reduction, dim_reduction_args, log_fail) ==
    LET m0 == [PersistentModel EXCEPT !.name = name]
        p == _set_params(m0, estimator_args, scaler_args, execution_args,
                         dim_reduction, dim_reduction_args, log_fail)
        new == [p.model EXCEPT !.dim_reduction = dim_reduction]
        m == IF name \in DOMAIN st /\ ~new.overwrite THEN st[name] ELSE new
        lf == IF new.debug THEN log_fail ELSE 0
    IN  OpenLog(new.debug, 1, log_fail,
                IF ~p.ok THEN Raise(c, st, "setup", name)
                ELSE Respond(_update_cache(c, m), save(st, m), "setup", name,
                             _send_table_description("setup"), <<name>>, {8, 5, 4}, lf))

\* setup(): the handler of a configure call.  model.overwrite is set by
\* _set_params and read nowhere: the model is saved (line 177) and cached
\* (line 180) whether or not the name has a model
setup(c, st, name, estimator_args, scaler_args, execution_args, dim_reduction, dim_reduction_args, log_fail) ==
    LET m0 == [PersistentModel EXCEPT !.name = name]
        p == _set_params(m0, estimator_args, scaler_args, execution_args,
                         dim_reduction, dim_reduction_args, log_fail)
        m == [p.model EXCEPT !.dim_reduction = dim_reduction]
        lf == IF m.debug THEN log_fail ELSE 0
    IN  OpenLog(m.debug, 1, log_fail,
                IF ~p.ok THEN Raise(c, st, "setup", name)
                ELSE Respond(_update_cache(c, m), save(st, m), "setup", name,
                             _send_table_description("setup"), <<name>>, {8, 5, 4}, lf))

\* set_features(): the handler of a define-features call
set_features(c, st, name, features, log_fail) ==
    LET g == _get_model(c, st, name, log_fail)
        debug == g.found /\ g.model.debug
        lf == IF debug THEN log_fail ELSE 0
        m == [g.model EXCEPT !.features_df = Frame(features)]
    IN  OpenLog(debug, FirstStep(c, name), log_fail,
                IF ~g.ok \/ lf = 3 THEN Raise(g.cache, st, "set_features", name)
                ELSE Respond(_update_cache(Assign(g.cache, m), m), save(st, m),
                             "set_features", name,
                             _send_table_description("setup"), <<name>>, {8, 5, 4}, lf))

\* get_features(): line 274 adds the column sort_order to the frame of the
\* model itself, the response (line 275) is a new frame
get_features(c, st, name, log_fail) ==
    LET g == _get_model(c, st, name, log_fail)
        debug == g.found /\ g.model.debug
        lf == IF debug THEN log_fail ELSE 0
        m == [g.model EXCEPT !.features_df.sort_order = TRUE]
    IN  OpenLog(debug, FirstStep(c, name), log_fail,
                IF ~g.ok \/ lf = 3 \/ ~g.model.features_df.defined
                THEN Raise(g.cache, st, "get_features", name)
                ELSE Respond(Assign(g.cache, m), st, "get_features", name,
                             _send_table_description("features"), m.features_df.rows,
                             {5, 4}, lf))

\* get_features_expression()
get_features_expression(c, st, name, log_fail) ==
    LET g == _get_model(c, st, name, log_fail)
        debug == g.found /\ g.model.debug
        lf == IF debug THEN log_fail ELSE 0
    IN  OpenLog(debug, FirstStep(c, name), log_fail,
                IF ~g.ok \/ lf = 3 \/ ~g.model.features_df.defined
                THEN Raise(g.cache, st, "get_features_expression", name)
                ELSE Respond(g.cache, st, "get_features_expression", name,
                             _send_table_description("expression"),
                             FeatureNames(g.model.features_df.rows), {5, 4}, lf))

\* fit, lines 313-316: the request rows are split into one column per feature
\* definition, which needs a features_df and rows of as many values
ColumnsOk(m, width) == m.features_df.defined /\ width = Len(m.features_df.rows)

\* fit, lines 321-324: target.index[0] needs at least one row of type target
TargetOk(m) == SelectSeq(m.features_df.rows, IsTarget) # <<>>

\* fit without lines 329-334
DropExclusionsNone(m) == m

\* fit, lines 329-334: the excluded, target and identifier rows leave features_df
DropExclusions(m) ==
    [m EXCEPT !.features_df.rows = SelectSeq(m.features_df.rows, IsKept)]

\* lines 350-355 with a constructor that takes any name
EstimatorOkAny(m) == TRUE

\* fit, lines 350-355: the preprocessor needs model.scaler, and the estimator
\* class is looked up in self.algorithms
EstimatorOk(m) == m.scaler # Unset /\ m.estimator \in algorithms

\* fit, lines 357-359
BuildPipe(m) ==
    [m EXCEPT !.pipe = [built |-> TRUE, fitted |-> FALSE,
                        steps |-> <<"preprocessor", "estimator">>],
              !.estimation_step = 1]

\* fit, lines 361-367: [ok, model]
AddReduction(m) ==
    LET ins == PipelineInsert(m.pipe, 1, "reduction")
    IN  IF ~m.dim_reduction THEN [ok |-> TRUE, model |-> m]
        ELSE IF m.reduction \notin decomposers \/ ~ins.ok
             THEN [ok |-> FALSE, model |-> m]
        ELSE [ok |-> TRUE,
              model |-> [m EXCEPT !.pipe = ins.pipe, !.estimation_step = 2]]

\* fit, lines 369-373: pipe.fit and pipe.score
FitAndScore(m, score) == [m EXCEPT !.pipe.fitted = TRUE, !.score = score]

\* fit(): the handler of a train call.  width is the number of values in each
\* request row, fitOk whether pipe.fit and pipe.score accept the data (they
\* need at least one feature column), score what pipe.score gives.
fit(c, st, name, width, fitOk, score, log_fail) ==
    LET g == _get_model(c, st, name, log_fail)
        debug == g.found /\ g.model.debug
        lf == IF debug THEN log_fail ELSE 0
        m == g.model
        m1 == DropExclusions(m)
        m2 == BuildPipe(m1)
        r == AddReduction(m2)
        m3 == r.model
        m4 == FitAndScore(m3, score)
    IN  OpenLog(debug, FirstStep(c, name), log_fail,
                IF ~g.ok \/ lf = 3 THEN Raise(g.cache, st, "fit", name)
                ELSE IF ~ColumnsOk(m, width) THEN Raise(g.cache, st, "fit", name)
                ELSE IF ~TargetOk(m) THEN Raise(g.cache, st, "fit", name)
                ELSE IF ~EstimatorOk(m1) THEN Raise(Assign(g.cache, m1), st, "fit", name)
                ELSE IF ~r.ok THEN Raise(Assign(g.cache, m3), st, "fit", name)
                ELSE IF ~fitOk \/ m3.features_df.rows = <<>>
                     THEN Raise(Assign(g.cache, m3), st, "fit", name)
                ELSE Respond(_update_cache(Assign(g.cache, m4), m4), save(st, m4),
                             "fit", name, _send_table_description("fit"), <<score>>,
                             {8, 5, 4}, lf))

\* predict that returns rows whatever the state of the pipeline
PipeReadyAlways(m) == TRUE

\* predict, lines 449-473: pipe.predict, pipe.predict_proba and
\* pipe.predict_log_proba need a pipe, and a fitted one
PipeReady(m) == m.pipe.built /\ m.pipe.fitted

\* A request row of predict: the key (of the call from the load script) and
\* the string of feature values, which has `width` values
RequestRow(key, n_features) == [key |-> key, n_features |-> n_features]

\* predict, lines 437-444: X has one row per request row, indexed by the key
\* in the call from the load script and by the row number otherwise
RequestIndex(request_rows, load_script) ==
    [i \in 1..Len(request_rows) |-> IF load_script THEN request_rows[i].key ELSE i]

\* predict, lines 449-473: pipe.predict, pipe.predict_proba or
\* pipe.predict_log_proba on X gives one result per row of X, in its order
PipePredict(variant, X) == [i \in 1..Len(X) |-> <<variant, X[i]>>]

\* line 476 with the results taken from the last to the first
ResponseFrameReversed(index, y) == [i \in 1..Len(y) |-> [index |-> index[i], result |-> y[Len(y) + 1 - i]]]

\* predict, line 476: the frame of the results, with the index of X
ResponseFrame(index, y) == [i \in 1..Len(y) |-> [index |-> index[i], result |-> y[i]]]

\* DataFrame.join of two frames on their index: each row of left, in order,
\* with every row of right that has its index value, in the order of right
JoinPairs(left, right) ==
    {p \in (1..Len(left)) \X (1..Len(right)) : left[p[1]].index = right[p[2]].index}
JoinRank(pairs, p) ==
    Cardinality({q \in pairs : q[1] < p[1] \/ (q[1] = p[1] /\ q[2] < p[2])}) + 1
join(left, right) ==
    LET pairs == JoinPairs(left, right)
    IN  [k \in 1..Cardinality(pairs) |->
            LET p == CHOOSE q \in pairs : JoinRank(pairs, q) = k
            IN  [model_name |-> left[p[1]].model_name, key |-> left[p[1]].key,
                 n_features |-> left[p[1]].n_features,
                 result |-> right[p[2]].result]]

\* DataFrame.drop(['n_features'], axis=1) on the joined frame
drop(rows) ==
    [i \in 1..Len(rows) |-> [model_name |-> rows[i].model_name, key |-> rows[i].key,
                             result |-> rows[i].result]]

\* predict, lines 476-497: the rows of the response
PredictResponse(name, request_rows, load_script, y) ==
    LET index == RequestIndex(request_rows, load_script)
        request_df == [i \in 1..Len(request_rows) |->
                          [index |-> index[i], model_name |-> name,
                           key |-> request_rows[i].key,
                           n_features |-> request_rows[i].n_features]]
        frame == ResponseFrame(index, y)
    IN  IF load_script THEN drop(join(request_df, frame))
        ELSE [i \in 1..Len(frame) |-> frame[i].result]

\* predict that puts the model back into the cache as the writing calls do
predict_put(c, st, name, load_script, variant, width, request_rows, log_fail) ==
    LET g == _get_model(c, st, name, log_fail)
        debug == g.found /\ g.model.debug
        lf == IF debug THEN log_fail ELSE 0
        m == g.model
        op == IF load_script THEN "predict_keyed" ELSE "predict"
        table == IF load_script THEN _send_table_description("predict") ELSE <<>>
        X == [i \in 1..Len(request_rows) |-> request_rows[i].n_features]
    IN  OpenLog(debug, FirstStep(c, name), log_fail,
                IF ~g.ok \/ lf = 3 THEN Raise(g.cache, st, op, name)
                ELSE IF ~m.features_df.defined \/ width # Len(m.features_df.rows)
                     THEN Raise(g.cache, st, op, name)
                ELSE IF ~PipeReady(m) THEN Raise(g.cache, st, op, name)
                ELSE Respond(_update_cache(g.cache, m), st, op, name, table,
                             PredictResponse(name, request_rows, load_script,
                                             PipePredict(variant, X)),
                             IF load_script THEN {5, 4} ELSE {4}, lf))

\* predict(): request rows of width values each; only the call from the load
\* script (lines 478-489) sends a table description
predict(c, st, name, load_script, variant, width, request_rows, log_fail) ==
    LET g == _get_model(c, st, name, log_fail)
        debug == g.found /\ g.model.debug
        lf == IF debug THEN log_fail ELSE 0
        m == g.model
        op == IF load_script THEN "predict_keyed" ELSE "predict"
        table == IF load_script THEN _send_table_description("predict") ELSE <<>>
        X == [i \in 1..Len(request_rows) |-> request_rows[i].n_features]
    IN  OpenLog(debug, FirstStep(c, name), log_fail,
                IF ~g.ok \/ lf = 3 THEN Raise(g.cache, st, op, name)
                ELSE IF ~m.features_df.defined \/ width # Len(m.features_df.rows)
                     THEN Raise(g.cache, st, op, name)
                ELSE IF ~PipeReady(m) THEN Raise(g.cache, st, op, name)
                ELSE Respond(g.cache, st, op, name, table,
                             PredictResponse(name, request_rows, load_script,
                                             PipePredict(variant, X)),
                             IF load_script THEN {5, 4} ELSE {4}, lf))

(***************************************************************************)
(* Requests                                                                *)
(***************************************************************************)
\* configure requests: estimator_args, scaler_args, execution_args, whether
\* the call is the one with dimensionality reduction, and dim_reduction_args
SetupRequest(estimator_args, execution_args, dim_reduction, dim_reduction_args) ==
    [estimator_args |-> estimator_args,
     scaler_args |-> {<<"scaler", "StandardScaler">>},
     execution_args |-> execution_args,
     dim_reduction |-> dim_reduction, dim_reduction_args |-> dim_reduction_args]

SetupRequests ==
    { SetupRequest({<<"estimator", "RandomForestClassifier">>}, {}, FALSE, {}),
      SetupRequest({<<"estimator", "RandomForestClassifier">>},
                   {<<"debug", "True">>}, FALSE, {}),
      SetupRequest({<<"estimator", "RandomForestClassifier">>}, {},
                   TRUE, {<<"reduction", "PCA">>}),
      SetupRequest({<<"estimator", "RandomForestClassifier">>}, {},
                   TRUE, {<<"reduction", "NotADecomposer">>}),
      SetupRequest({<<"estimator", "NotAnEstimator">>}, {}, FALSE, {}),
      SetupRequest({<<"n_estimators", "10">>}, {}, FALSE, {}),
      SetupRequest({}, {}, FALSE, {}) }

Feature(n, t) == [name |-> n, variable_type |-> t]

\* define-features requests: one target, no target, two targets
FeatureRequests ==
    { <<Feature("id", "identifier"), Feature("f1", "feature"), Feature("y", "target")>>,
      <<Feature("f1", "feature"), Feature("x", "excluded")>>,
      <<Feature("y", "target"), Feature("f1", "feature"), Feature("y2", "target")>> }

Scores == {"0.900"}
Variants == {"predict", "predict_proba", "predict_log_proba"}

\* predict requests: a single row
OneRow == <<RequestRow("k1", "x1")>>

(***************************************************************************)
(* Sequential calls: each action is one whole handler.  The writes to the  *)
(* log files succeed here; SpecLogging has the calls whose write fails     *)
(***************************************************************************)
\* No call was made yet
NoResponse == [op |-> "none", name |-> Unset, ok |-> TRUE, rows |-> <<>>, out |-> <<>>]

Init ==
    /\ model_cache = <<>>
    /\ store = <<>>
    /\ response = NoResponse
    /\ nCalls = 0
    /\ trained = {}
    /\ accessed = <<>>
    /\ evicted = <<>>
    /\ calls = <<>>
    /\ log_no = 0
    /\ logfiles = {}

\* The call ends with outcome o
Apply(o) ==
    /\ nCalls' = nCalls + 1
    /\ model_cache' = o.cache
    /\ store' = o.store
    /\ response' = o.response
    /\ trained' = IF o.response.ok /\ o.response.op = "fit"
                  THEN trained \cup {o.response.name}
                  ELSE IF o.response.ok /\ o.response.op = "setup"
                       THEN trained \ {o.response.name}
                       ELSE trained
    /\ log_no' = log_no + o.logs
    /\ logfiles' = IF o.files > 0 THEN logfiles \cup {log_no + o.logs} ELSE logfiles

\* The guard of the call bound is also the first conjunct of each action
Finish(o) ==
    /\ nCalls < MaxCalls
    /\ Apply(o)
    /\ UNCHANGED <<accessed, evicted, calls>>

\* Model names carry no meaning: a call that names a model no configure has
\* named yet takes the next unused name, m1 before m2 and so on.
SetupNames(st) ==
    {NameOrder[i] : i \in {j \in 1..Len(NameOrder) :
                              \A k \in 1..(j - 1) : NameOrder[k] \in DOMAIN st}}

CallListModels ==
    /\ nCalls < MaxCalls
    /\ \E search_pattern \in {""} \cup SetupNames(store) :
           Finish(list_models(model_cache, store, search_pattern))

CallSetup ==
    /\ nCalls < MaxCalls
    /\ \E name \in SetupNames(store), r \in SetupRequests :
           Finish(setup(model_cache, store, name, r.estimator_args, r.scaler_args,
                        r.execution_args, r.dim_reduction, r.dim_reduction_args, 0))

CallSetFeatures ==
    /\ nCalls < MaxCalls
    /\ \E name \in SetupNames(store), f \in FeatureRequests :
           Finish(set_features(model_cache, store, name, f, 0))

CallGetFeatures ==
    /\ nCalls < MaxCalls
    /\ \E name \in SetupNames(store) : Finish(get_features(model_cache, store, name, 0))

CallGetFeaturesExpression ==
    /\ nCalls < MaxCalls
    /\ \E name \in SetupNames(store) :
           Finish(get_features_expression(model_cache, store, name, 0))

CallFit ==
    /\ nCalls < MaxCalls
    /\ \E name \in SetupNames(store), width \in 1..MaxWidth, fitOk \in BOOLEAN,
          score \in Scores :
           Finish(fit(model_cache, store, name, width, fitOk, score, 0))

CallPredict ==
    /\ nCalls < MaxCalls
    /\ \E name \in SetupNames(store), load_script \in BOOLEAN, variant \in Variants,
          width \in 1..MaxWidth :
           Finish(predict(model_cache, store, name, load_script, variant, width,
                          OneRow, 0))

Next ==
    \/ CallListModels
    \/ CallSetup
    \/ CallSetFeatures
    \/ CallGetFeatures
    \/ CallGetFeaturesExpression
    \/ CallFit
    \/ CallPredict

Spec == Init /\ [][Next]_vars

(***************************************************************************)
(* Properties of sequential calls                                          *)
(***************************************************************************)
PutOps == {"setup", "set_features", "fit"}
PredictOps == {"predict", "predict_keyed"}
LookupOps == {"set_features", "get_features", "fit", "predict", "predict_keyed",
              "get_features_expression"}

\* The model a call on `name` works on: the cached one, else the snapshot
Known(c, st, name) == name \in Keys(c) \/ name \in DOMAIN st
Resolve(c, st, name) == IF name \in Keys(c) THEN Get(c, name) ELSE st[name]
Targets(m) == SelectSeq(m.features_df.rows, IsTarget)
AllModels ==
    {model_cache[i].value : i \in 1..Len(model_cache)} \cup {store[n] : n \in DOMAIN store}
Last(c) == c[Len(c)]
\* A step that is a call (and not a stuttering step)
IsCall == nCalls' = nCalls + 1

\* C1: after any sequence of sequential calls, succeeding or failing, the cache
\* holds at most cache_limit entries and at most one entry per model name.
C1_CacheBounded ==
    /\ Len(model_cache) <= cache_limit
    /\ Cardinality(Keys(model_cache)) = Len(model_cache)

\* A full cache after more names were put than it can hold
C1_Witness ==
    /\ Len(model_cache) = cache_limit
    /\ Cardinality(DOMAIN store) > cache_limit

\* C2: a cache hit in the lookup of a call promotes the entry: right after the
\* call its name is the most recently used entry (the last to be evicted).
C2_HitPromotes ==
    (response.ok /\ response.op \in LookupOps /\ response.name \in Keys(model_cache))
        => Last(model_cache).key = response.name

\* C3: a put of a name that is already cached, into a full cache, evicts no
\* other name and makes the name the most recently used entry.
C3_PutKeepsOthers ==
    [][(/\ IsCall
        /\ response'.ok /\ response'.op \in PutOps
        /\ Len(model_cache) = cache_limit
        /\ response'.name \in Keys(model_cache))
        => (/\ Keys(model_cache') = Keys(model_cache)
            /\ Last(model_cache').key = response'.name)]_vars

\* C6: right after a successful configure, define-features or train the named
\* model is the most recently used cache entry and the cached model is the one
\* that was persisted.
C6_PutFollowsSave ==
    (response.ok /\ response.op \in PutOps)
        => /\ model_cache # <<>>
           /\ Last(model_cache).key = response.name
           /\ response.name \in DOMAIN store
           /\ Last(model_cache).value = store[response.name]

\* A train has just succeeded while another model is cached too
C6_Witness ==
    response.ok /\ response.op = "fit" /\ Len(model_cache) >= 2

C8_TrainNeedsOneTarget ==
    [][(IsCall /\ response'.op = "fit" /\ response'.ok)
        => Len(Targets(Resolve(model_cache, store, response'.name))) = 1]_vars

\* C9: a model with a fitted pipeline has a configured estimator of the
\* registry and a Feature Contract, and its name was configured and then
\* trained; a train on a model without Feature Contract fails and sets neither
\* a pipeline nor a score.
C9_FittedModels ==
    \A m \in AllModels :
        m.pipe.fitted => /\ m.estimator # Unset
                         /\ m.estimator \in algorithms
                         /\ m.scaler # Unset
                         /\ m.features_df.defined
                         /\ m.name \in trained

C9_TrainWithoutContract ==
    \A n \in Names :
        (/\ IsCall /\ response'.op = "fit" /\ response'.name = n
         /\ Known(model_cache, store, n)
         /\ ~Resolve(model_cache, store, n).features_df.defined)
            => /\ ~response'.ok
               /\ Resolve(model_cache', store', n).pipe
                    = Resolve(model_cache, store, n).pipe
               /\ Resolve(model_cache', store', n).score
                    = Resolve(model_cache, store, n).score
               /\ ~Resolve(model_cache', store', n).pipe.built

C14_NotFoundChangesNothing ==
    [][(/\ IsCall
        /\ response'.op \in LookupOps
        /\ ~Known(model_cache, store, response'.name))
        => (/\ ~response'.ok
            /\ model_cache' = model_cache
            /\ store' = store)]_vars

\* A call on an unknown name has just failed while two models are cached
C14_Witness ==
    /\ response.op \in LookupOps /\ ~response.ok
    /\ ~Known(model_cache, store, response.name)
    /\ Len(model_cache) >= 2

\* C15: a configure call whose options lack the selector key (estimator,
\* scaler, reduction), an empty options string included, fails before anything
\* is saved: no snapshot and no cache entry comes from such a call, so every
\* model that exists has its selectors.
C15_SelectorsRequired ==
    \A m \in AllModels :
        /\ m.estimator # Unset
        /\ m.scaler # Unset
        /\ m.dim_reduction => m.reduction # Unset

\* The model was configured with an estimator or a reduction that the
\* registries do not have
UnknownName(m) ==
    \/ m.estimator # Unset /\ m.estimator \notin algorithms
    \/ m.dim_reduction /\ m.reduction # Unset /\ m.reduction \notin decomposers

\* C16: every train on a model configured with an estimator or reduction name
\* that is not in the registry fails, attaches no pipeline and no score to the
\* model, and the model does not become trained.
C16_UnknownNameFailsTrain ==
    [][(/\ IsCall
        /\ response'.op = "fit"
        /\ Known(model_cache, store, response'.name)
        /\ UnknownName(Resolve(model_cache, store, response'.name)))
        => (/\ ~response'.ok
            /\ ~Resolve(model_cache', store', response'.name).pipe.built
            /\ Resolve(model_cache', store', response'.name).score = Unset
            /\ store'[response'.name].score = Unset
            /\ ~store'[response'.name].pipe.built
            /\ response'.name \notin trained')]_vars

\* C17: once a configure of a name has succeeded its snapshot exists in every
\* later state: no call, failing or not, and no cache eviction deletes one.
C17_SnapshotsStay ==
    [][/\ DOMAIN store \subseteq DOMAIN store'
       /\ (IsCall /\ response'.ok /\ response'.op = "setup")
            => response'.name \in DOMAIN store']_vars

\* A model was evicted from the full cache: its snapshot is still there
C17_Witness ==
    /\ \E n \in DOMAIN store : n \notin Keys(model_cache)
    /\ Len(model_cache) = cache_limit

HasRoleFeature(f) == f.variable_type = "feature"

\* C18: after a successful train the Feature Contract of the model, in the
\* cache and in the snapshot, has exactly the entries that had role feature,
\* and a get-features that follows returns those entries.
C18_TrainFiltersContract ==
    [][(IsCall /\ response'.op = "fit" /\ response'.ok)
        => LET n == response'.name
               kept == SelectSeq(Resolve(model_cache, store, n).features_df.rows,
                                 HasRoleFeature)
           IN  /\ n \in Keys(model_cache')
               /\ Get(model_cache', n).features_df.rows = kept
               /\ store'[n].features_df.rows = kept
               /\ get_features(model_cache', store', n, 0).response.ok
               /\ get_features(model_cache', store', n, 0).response.rows = kept]_vars

\* A train has succeeded on a contract of an identifier, a feature and a
\* target, of which the feature is left
C18_Witness ==
    /\ response.ok /\ response.op = "fit"
    /\ store[response.name].features_df.rows = <<Feature("f1", "feature")>>
    /\ Get(model_cache, response.name).features_df.rows = <<Feature("f1", "feature")>>

\* The table description of each operation that sends one
TableOf(op) ==
    CASE op \in {"setup", "set_features"} -> "setup"
      [] op = "get_features" -> "features"
      [] op = "fit" -> "fit"
      [] op = "predict_keyed" -> "predict"
      [] op = "get_features_expression" -> "expression"
      [] OTHER -> "none"

\* C20: every successful call of every operation sends exactly one table
\* description, and sends it before the rows.
C20_OneDescriptorEach ==
    (response.ok /\ response.op # "none")
        => /\ Len(response.out) = 2
           /\ response.out[1] # "rows"
           /\ response.out[2] = "rows"

\* C20 as amended: every successful configure, define-features, get-features,
\* train, keyed predict and get-feature-expression call sends exactly one
\* table description, that of its operation, before the rows; list-models and
\* positional predict send the rows only.
C20_DescriptorOfLoadScriptCalls ==
    (response.ok /\ response.op # "none")
        => IF response.op \in {"list_models", "predict"}
           THEN response.out = <<"rows">>
           ELSE response.out = <<TableOf(response.op), "rows">>

\* A keyed predict has succeeded
C20_Witness ==
    /\ response.ok /\ response.op = "predict_keyed"
    /\ response.out = <<"predict", "rows">>

(***************************************************************************)
(* Cache accesses to persisted models, with their history                  *)
(***************************************************************************)
ValidSetup == SetupRequest({<<"estimator", "RandomForestClassifier">>}, {}, FALSE, {})
OneTarget ==
    <<Feature("id", "identifier"), Feature("f1", "feature"), Feature("y", "target")>>

\* The model setup saves for request r (lines 155-177)
Configured(name, r) ==
    [_set_params([PersistentModel EXCEPT !.name = name], r.estimator_args,
                 r.scaler_args, r.execution_args, r.dim_reduction,
                 r.dim_reduction_args, 0).model EXCEPT !.dim_reduction = r.dim_reduction]

\* The model set_features saves (lines 223-227)
Defined(m, features) == [m EXCEPT !.features_df = Frame(features)]

\* The model fit saves for a model without reduction (lines 329-376)
Trained(m, score) == FitAndScore(BuildPipe(DropExclusions(m)), score)

\* The snapshot an earlier process left on disk by configure, define-features
\* and train of `name`
Snapshot(name) == Trained(Defined(Configured(name, ValidSetup), OneTarget), "0.900")

\* A process starts with an empty cache and the snapshots of earlier processes
InitPersisted ==
    /\ model_cache = <<>>
    /\ store = [n \in Names |-> Snapshot(n)]
    /\ response = NoResponse
    /\ nCalls = 0
    /\ trained = Names
    /\ accessed = <<>>
    /\ evicted = <<>>
    /\ calls = <<>>
    /\ log_no = 0
    /\ logfiles = {}

\* The keys of c that c2 no longer has, oldest first
Gone(c, c2) == SelectSeq(KeySeq(c), LAMBDA k : k \notin Keys(c2))

Access(kind, name, o) ==
    /\ Len(accessed) < MaxAccesses
    /\ Apply(o)
    /\ accessed' = Append(accessed, [kind |-> kind, name |-> name])
    /\ evicted' = evicted \o Gone(model_cache, o.cache)
    /\ UNCHANGED calls

\* a put: the configure call, which saves the model and puts it
AccessPut ==
    \E name \in Names :
        Access("put", name,
               setup(model_cache, store, name, ValidSetup.estimator_args,
                     ValidSetup.scaler_args, ValidSetup.execution_args,
                     ValidSetup.dim_reduction, ValidSetup.dim_reduction_args, 0))

\* a get: a read call, which resolves the model through the cache
AccessGet ==
    \E name \in Names :
        Access("get", name, get_features_expression(model_cache, store, name, 0))

NextPuts == AccessPut
SpecPuts == InitPersisted /\ [][NextPuts]_vars

NextLRU == AccessPut \/ AccessGet
SpecLRU == InitPersisted /\ [][NextLRU]_vars

AccessedNames == {accessed[i].name : i \in 1..Len(accessed)}
AccessedSeq == [i \in 1..Len(accessed) |-> accessed[i].name]
LastAccess(n) == CHOOSE i \in 1..Len(accessed) :
                    /\ accessed[i].name = n
                    /\ \A j \in (i + 1)..Len(accessed) : accessed[j].name # n
Distinct(s) == \A i, j \in 1..Len(s) : i # j => s[i] # s[j]
Min(a, b) == IF a < b THEN a ELSE b

\* C4: from an empty cache, N puts of pairwise distinct names leave exactly the
\* last cache_limit names put, in the order put, and the names before them
\* were evicted oldest first.
C4_PutsKeepMostRecent ==
    Distinct(AccessedSeq)
        => LET N == Len(AccessedSeq)
               K == Min(N, cache_limit)
           IN  /\ KeySeq(model_cache) = SubSeq(AccessedSeq, N - K + 1, N)
               /\ evicted = SubSeq(AccessedSeq, 1, N - K)

\* Two more distinct names were put than the cache holds
C4_Witness ==
    /\ Distinct(AccessedSeq)
    /\ Len(AccessedSeq) = cache_limit + 2
    /\ Len(evicted) = 2

\* C5: after any sequence of gets and puts of persisted models the cache holds
\* exactly the min(cache_limit, number of names accessed) most recently
\* accessed names.
C5_CacheIsMostRecent ==
    Keys(model_cache) =
        {n \in AccessedNames :
            Cardinality({m \in AccessedNames : LastAccess(m) > LastAccess(n)})
                < cache_limit}

(***************************************************************************)
(* Concurrent calls: the handlers run in threads without any lock, so each *)
(* action is one step of _get_model or _update_cache on the shared cache   *)
(***************************************************************************)
Threads == 1..NumThreads
\* one name more than the cache holds
ConcurrentNames == {NameOrder[i] : i \in 1..(cache_limit + 1)}
Idle == [pc |-> "idle", op |-> "none", name |-> Unset, model |-> PersistentModel,
         in_get |-> FALSE, table |-> "none", loaded |-> FALSE]

InitConcurrent ==
    /\ model_cache = <<>>
    /\ store = [n \in ConcurrentNames |-> Snapshot(n)]
    /\ response = NoResponse
    /\ nCalls = 0
    /\ trained = ConcurrentNames
    /\ accessed = <<>>
    /\ evicted = <<>>
    /\ calls = [t \in Threads |-> Idle]
    /\ log_no = 0
    /\ logfiles = {}

Goto(t, pc) == calls' = [calls EXCEPT ![t].pc = pc]
History == <<trained, accessed, evicted, log_no, logfiles>>

\* The call of thread t ends: with an exception (ok = FALSE) or its response
End(t, ok, rows) ==
    /\ response' = [op |-> calls[t].op, name |-> calls[t].name, ok |-> ok, rows |-> rows,
                    out |-> IF ok THEN _send_table_description(calls[t].table) \o <<"rows">>
                            ELSE <<>>]
    /\ calls' = [calls EXCEPT ![t] = Idle]

\* setup, lines 155-174: a new model with its parameters set
BeginSetup(t) ==
    /\ calls[t].pc = "idle" /\ nCalls < MaxCalls
    /\ \E name \in ConcurrentNames :
        LET p == _set_params([PersistentModel EXCEPT !.name = name],
                             ValidSetup.estimator_args, ValidSetup.scaler_args,
                             ValidSetup.execution_args, ValidSetup.dim_reduction,
                             ValidSetup.dim_reduction_args, 0)
        IN  calls' = [calls EXCEPT ![t] =
                        [pc |-> "save", op |-> "setup", name |-> name,
                         model |-> [p.model EXCEPT !.dim_reduction = FALSE],
                         in_get |-> FALSE, table |-> "setup", loaded |-> FALSE]]
    /\ nCalls' = nCalls + 1
    /\ UNCHANGED <<model_cache, store, response, History>>

\* setup, line 177
SaveModel(t) ==
    /\ calls[t].pc = "save"
    /\ store' = save(store, calls[t].model)
    /\ Goto(t, "cache_len")
    /\ UNCHANGED <<model_cache, response, nCalls, History>>

\* get_features_expression, lines 522-526
BeginRead(t) ==
    /\ calls[t].pc = "idle" /\ nCalls < MaxCalls
    /\ \E name \in ConcurrentNames :
        calls' = [calls EXCEPT ![t] =
                    [pc |-> "get_in", op |-> "get_features_expression", name |-> name,
                     model |-> [PersistentModel EXCEPT !.name = name],
                     in_get |-> TRUE, table |-> "expression", loaded |-> FALSE]]
    /\ nCalls' = nCalls + 1
    /\ UNCHANGED <<model_cache, store, response, History>>

\* _get_model, line 738
GetIn(t) ==
    /\ calls[t].pc = "get_in"
    /\ Goto(t, IF calls[t].name \in Keys(model_cache) THEN "get_hit" ELSE "get_load")
    /\ UNCHANGED <<model_cache, store, response, nCalls, History>>

\* _get_model, line 740: a KeyError when the entry has gone since line 738
GetHit(t) ==
    /\ calls[t].pc = "get_hit"
    /\ IF calls[t].name \in Keys(model_cache)
       THEN /\ calls' = [calls EXCEPT ![t].model = Get(model_cache, calls[t].name),
                                      ![t].pc = "body"]
            /\ UNCHANGED response
       ELSE End(t, FALSE, <<>>)
    /\ UNCHANGED <<model_cache, store, nCalls, History>>

\* _get_model, line 747
GetLoad(t) ==
    /\ calls[t].pc = "get_load"
    /\ LET l == load(store, calls[t].name)
       IN  IF l.ok
           THEN /\ calls' = [calls EXCEPT ![t].model = l.model, ![t].loaded = TRUE,
                                          ![t].pc = "cache_len"]
                /\ UNCHANGED response
           ELSE End(t, FALSE, <<>>)
    /\ UNCHANGED <<model_cache, store, nCalls, History>>

\* _update_cache, line 762
CacheLen(t) ==
    /\ calls[t].pc = "cache_len"
    /\ Goto(t, IF cache_limit = Len(model_cache) THEN "cache_pop" ELSE "cache_in")
    /\ UNCHANGED <<model_cache, store, response, nCalls, History>>

\* _update_cache, line 764: a KeyError when the cache is empty by now
CachePop(t) ==
    /\ calls[t].pc = "cache_pop"
    /\ IF model_cache # <<>>
       THEN /\ model_cache' = PopOldest(model_cache)
            /\ Goto(t, "cache_in")
            /\ UNCHANGED response
       ELSE /\ End(t, FALSE, <<>>)
            /\ UNCHANGED model_cache
    /\ UNCHANGED <<store, nCalls, History>>

\* _update_cache, line 767
CacheIn(t) ==
    /\ calls[t].pc = "cache_in"
    /\ Goto(t, IF calls[t].name \in Keys(model_cache) THEN "cache_del" ELSE "cache_set")
    /\ UNCHANGED <<model_cache, store, response, nCalls, History>>

\* _update_cache, line 768: a KeyError when the entry has gone since line 767
CacheDel(t) ==
    /\ calls[t].pc = "cache_del"
    /\ IF calls[t].name \in Keys(model_cache)
       THEN /\ model_cache' = Del(model_cache, calls[t].name)
            /\ Goto(t, "cache_set")
            /\ UNCHANGED response
       ELSE /\ End(t, FALSE, <<>>)
            /\ UNCHANGED model_cache
    /\ UNCHANGED <<store, nCalls, History>>

\* _update_cache, line 771; setup then returns its response (lines 182-195),
\* a call that is in _get_model goes on with the model
CacheSet(t) ==
    /\ calls[t].pc = "cache_set"
    /\ model_cache' = SetItem(model_cache, calls[t].name, calls[t].model)
    /\ IF calls[t].in_get
       THEN Goto(t, "body") /\ UNCHANGED <<response, trained>>
       ELSE /\ End(t, TRUE, <<calls[t].name>>)
            /\ trained' = trained \ {calls[t].name}
    /\ UNCHANGED <<store, nCalls, accessed, evicted, log_no, logfiles>>

\* get_features_expression, lines 535-548
ReadBody(t) ==
    /\ calls[t].pc = "body"
    /\ IF calls[t].model.features_df.defined
       THEN End(t, TRUE, FeatureNames(calls[t].model.features_df.rows))
       ELSE End(t, FALSE, <<>>)
    /\ UNCHANGED <<model_cache, store, nCalls, History>>

NextConcurrent ==
    \E t \in Threads :
        \/ BeginSetup(t)
        \/ SaveModel(t)
        \/ BeginRead(t)
        \/ GetIn(t)
        \/ GetHit(t)
        \/ GetLoad(t)
        \/ CacheLen(t)
        \/ CachePop(t)
        \/ CacheIn(t)
        \/ CacheDel(t)
        \/ CacheSet(t)
        \/ ReadBody(t)

SpecConcurrent == InitConcurrent /\ [][NextConcurrent]_vars

AllIdle == \A t \in Threads : calls[t].pc = "idle"

\* C10: under every interleaving of concurrent calls the cache never holds
\* more than cache_limit entries, during the calls and after they have ended.
C10_ConcurrentCacheBounded == Len(model_cache) <= cache_limit

\* C12: no call fails because of the interleaving with another call: every
\* get or put of a name that has a snapshot ends successfully, that is, no
\* call ends with an error in a step of _get_model or _update_cache.
CachePcs == {"get_in", "get_hit", "get_load", "cache_len", "cache_pop", "cache_in",
             "cache_del", "cache_set"}
C12_NoInterleavingFailure ==
    [][\A t \in Threads :
          (calls[t].pc \in CachePcs /\ calls'[t].pc = "idle") => response'.ok]_vars

(***************************************************************************)
(* Two concurrent calls that look up the same model                        *)
(***************************************************************************)
Pair == {1, 2}
SameName == NameOrder[cache_limit + 1]

\* The cache after k sequential reads of other models
CacheOfReads(k) ==
    [i \in 1..k |-> [key |-> NameOrder[i], value |-> Snapshot(NameOrder[i])]]

InitSameMiss ==
    /\ \E k \in 0..cache_limit : model_cache = CacheOfReads(k)
    /\ store = [n \in ConcurrentNames |-> Snapshot(n)]
    /\ response = NoResponse
    /\ nCalls = 0
    /\ trained = ConcurrentNames
    /\ accessed = <<>>
    /\ evicted = <<>>
    /\ calls = [t \in Pair |-> Idle]
    /\ log_no = 0
    /\ logfiles = {}

\* get_features_expression, lines 522-526, for the model SameName
BeginSame(t) ==
    /\ calls[t].pc = "idle" /\ nCalls < Cardinality(Pair)
    /\ calls' = [calls EXCEPT ![t] =
                    [pc |-> "get_in", op |-> "get_features_expression",
                     name |-> SameName,
                     model |-> [PersistentModel EXCEPT !.name = SameName],
                     in_get |-> TRUE, table |-> "expression", loaded |-> FALSE]]
    /\ nCalls' = nCalls + 1
    /\ UNCHANGED <<model_cache, store, response, History>>

NextSameMiss ==
    \E t \in Pair :
        \/ BeginSame(t)
        \/ GetIn(t)
        \/ GetHit(t)
        \/ GetLoad(t)
        \/ CacheLen(t)
        \/ CachePop(t)
        \/ CacheIn(t)
        \/ CacheDel(t)
        \/ CacheSet(t)
        \/ ReadBody(t)

SpecSameMiss == InitSameMiss /\ [][NextSameMiss]_vars

\* Both calls missed, loaded the model and have put it
BothPut == \A t \in Pair : calls[t].loaded /\ calls[t].pc = "body"
OneEntry(c, name) == Cardinality({i \in 1..Len(c) : c[i].key = name}) = 1

NoLog == [pc |-> "idle", log_no |-> 0, logfile |-> 0]

InitLog ==
    /\ model_cache = <<>>
    /\ store = [n \in ConcurrentNames |-> Snapshot(n)]
    /\ response = NoResponse
    /\ nCalls = 0
    /\ trained = ConcurrentNames
    /\ accessed = <<>>
    /\ evicted = <<>>
    /\ calls = [t \in Threads |-> NoLog]
    /\ log_no = 0
    /\ logfiles = {}

Frame_Log == <<model_cache, store, response, trained, accessed, evicted>>

\* a call with debug set reaches line 609 (or line 785: self.logfile is None)
BeginLog(t) ==
    /\ calls[t].pc = "idle" /\ nCalls < MaxCalls
    /\ calls' = [calls EXCEPT ![t] = [pc |-> "log_load", log_no |-> 0, logfile |-> 0]]
    /\ nCalls' = nCalls + 1
    /\ UNCHANGED <<Frame_Log, log_no, logfiles>>

\* self.__class__.log_no += 1: the read of the class attribute
LogLoad(t) ==
    /\ calls[t].pc = "log_load"
    /\ calls' = [calls EXCEPT ![t].log_no = log_no, ![t].pc = "log_store"]
    /\ UNCHANGED <<Frame_Log, nCalls, log_no, logfiles>>

\* self.__class__.log_no += 1: the write of the sum
LogStore(t) ==
    /\ calls[t].pc = "log_store"
    /\ log_no' = calls[t].log_no + 1
    /\ calls' = [calls EXCEPT ![t].pc = "log_name"]
    /\ UNCHANGED <<Frame_Log, nCalls, logfiles>>

\* self.logfile = ... 'SKLearn Log {}.txt'.format(self.log_no); the file is
\* then written, and the call ends
LogName(t) ==
    /\ calls[t].pc = "log_name"
    /\ logfiles' = logfiles \cup {log_no}
    /\ calls' = [calls EXCEPT ![t] = NoLog]
    /\ UNCHANGED <<Frame_Log, nCalls, log_no>>

NextLog ==
    \E t \in Threads :
        \/ BeginLog(t)
        \/ LogLoad(t)
        \/ LogStore(t)
        \/ LogName(t)

SpecLog == InitLog /\ [][NextLog]_vars

\* C13: concurrent calls with debug set each get a log number of their own,
\* the counter goes up by exactly one per such call and never goes down.
C13_LogNumbers ==
    [][/\ log_no' >= log_no
       /\ AllIdle' => /\ log_no' = nCalls'
                      /\ Cardinality(logfiles') = nCalls']_vars

(***************************************************************************)
(* A restarted process: the cache is empty, the snapshots are on disk      *)
(***************************************************************************)
DebugSetup ==
    SetupRequest({<<"estimator", "RandomForestClassifier">>}, {<<"debug", "true">>}, FALSE, {})

\* The snapshot left by configure with debug set, define-features and train
DebugSnapshot(name) == Trained(Defined(Configured(name, DebugSetup), OneTarget), "0.900")

\* The snapshot left by configure and define-features
UntrainedSnapshot(name) == Defined(Configured(name, ValidSetup), OneTarget)

ServedNames == {NameOrder[i] : i \in 1..(cache_limit + 1)}

InitServing ==
    /\ model_cache = <<>>
    /\ store = [n \in ServedNames |->
                  IF n = NameOrder[1] THEN DebugSnapshot(n)
                  ELSE IF n = NameOrder[2] THEN UntrainedSnapshot(n)
                  ELSE Snapshot(n)]
    /\ response = NoResponse
    /\ nCalls = 0
    /\ trained = ServedNames \ {NameOrder[2]}
    /\ accessed = <<>>
    /\ evicted = <<>>
    /\ calls = <<>>
    /\ log_no = 0
    /\ logfiles = {}

\* The calls that use a model: the reads, train and predict
NextServing ==
    \/ CallListModels
    \/ CallGetFeatures
    \/ CallGetFeaturesExpression
    \/ CallFit
    \/ CallPredict

SpecServing == InitServing /\ [][NextServing]_vars

\* The items of c other than the item of name, in order
Others(c, name) == SelectSeq(c, LAMBDA it : it.key # name)
IsSubSeq(a, b) ==
    \E f \in [1..Len(a) -> 1..Len(b)] :
        /\ \A i \in 1..Len(a) : a[i] = b[f[i]]
        /\ \A i, j \in 1..Len(a) : i < j => f[i] < f[j]

\* predict leaves the named model and its snapshot as they were, and changes
\* the cache only by loading the model on a miss
PredictKeepsModel ==
    (IsCall /\ response'.op \in PredictOps)
        => LET n == response'.name
           IN  /\ store' = store
               /\ Known(model_cache, store, n)
                    => Resolve(model_cache', store', n) = Resolve(model_cache, store, n)
               /\ (n \in Keys(model_cache) \/ n \notin DOMAIN store)
                    => model_cache' = model_cache
               /\ (n \notin Keys(model_cache) /\ n \in DOMAIN store)
                    => /\ Last(model_cache').key = n
                       /\ Last(model_cache').value = store[n]
                       /\ OneEntry(model_cache', n)
                       /\ IsSubSeq(Others(model_cache', n), model_cache)

\* C19: predict is read-only on the model: configuration, Feature Contract,
\* pipeline, score and snapshot of the named model are the same after the call
\* as before, whether it succeeds or fails, and the only shared state it may
\* change is the membership and order of the cache when it loads the model on
\* a miss.
C19_PredictReadOnly ==
    [][/\ PredictKeepsModel
       /\ (IsCall /\ response'.op \in PredictOps)
            => (log_no' = log_no /\ logfiles' = logfiles)]_vars

\* C19 as amended: as C19, but a predict on a model that has debug set also
\* takes the next number of the log counter, for its log file.
C19_PredictReadOnlyButLog ==
    [][/\ PredictKeepsModel
       /\ (IsCall /\ response'.op \in PredictOps)
            => \/ log_no' = log_no /\ logfiles' = logfiles
               \/ /\ Known(model_cache, store, response'.name)
                  /\ Resolve(model_cache, store, response'.name).debug
                  /\ log_no' = log_no + 1
                  /\ logfiles' = logfiles \cup {log_no + 1}]_vars

\* A predict has succeeded on a model it had to load, into a full cache
C19_Witness ==
    /\ response.ok /\ response.op \in PredictOps
    /\ response.name \in Keys(model_cache)
    /\ Len(model_cache) = cache_limit
    /\ nCalls = cache_limit + 1

(***************************************************************************)
(* Calls on models with debug set, where a write to the log file may fail  *)
(***************************************************************************)
\* The steps of _print_log (lines 791-869)
LogSteps == 1..8

\* The step at which the write to the log file fails, 0 when none does
LogFailures == {0} \cup LogSteps

\* A process that has one trained model with debug set on disk
InitLogging ==
    /\ model_cache = <<>>
    /\ store = [n \in {NameOrder[1]} |-> DebugSnapshot(n)]
    /\ response = NoResponse
    /\ nCalls = 0
    /\ trained = {NameOrder[1]}
    /\ accessed = <<>>
    /\ evicted = <<>>
    /\ calls = <<>>
    /\ log_no = 0
    /\ logfiles = {}

LoggedSetup ==
    /\ nCalls < MaxCalls
    /\ \E name \in SetupNames(store), log_fail \in LogFailures :
           Finish(setup(model_cache, store, name, DebugSetup.estimator_args,
                        DebugSetup.scaler_args, DebugSetup.execution_args,
                        DebugSetup.dim_reduction, DebugSetup.dim_reduction_args,
                        log_fail))

LoggedSetFeatures ==
    /\ nCalls < MaxCalls
    /\ \E name \in SetupNames(store), log_fail \in LogFailures :
           Finish(set_features(model_cache, store, name, OneTarget, log_fail))

LoggedGetFeatures ==
    /\ nCalls < MaxCalls
    /\ \E name \in SetupNames(store), log_fail \in LogFailures :
           Finish(get_features(model_cache, store, name, log_fail))

LoggedGetFeaturesExpression ==
    /\ nCalls < MaxCalls
    /\ \E name \in SetupNames(store), log_fail \in LogFailures :
           Finish(get_features_expression(model_cache, store, name, log_fail))

LoggedFit ==
    /\ nCalls < MaxCalls
    /\ \E name \in SetupNames(store), fitOk \in BOOLEAN, score \in Scores,
          log_fail \in LogFailures :
           Finish(fit(model_cache, store, name, Len(OneTarget), fitOk, score, log_fail))

LoggedPredict ==
    /\ nCalls < MaxCalls
    /\ \E name \in SetupNames(store), load_script \in BOOLEAN, log_fail \in LogFailures :
           Finish(predict(model_cache, store, name, load_script, "predict",
                          Len(SelectSeq(OneTarget, IsKept)), OneRow, log_fail))

NextLogging ==
    \/ LoggedSetup
    \/ LoggedSetFeatures
    \/ LoggedGetFeatures
    \/ LoggedGetFeaturesExpression
    \/ LoggedFit
    \/ LoggedPredict

SpecLogging == InitLogging /\ [][NextLogging]_vars

\* C21: a call that ends in an error has sent no table description, at
\* whatever point it fails, a failing write of the debug log included.
C21_FailureSendsNothing == ~response.ok => response.out = <<>>

\* Two outcomes that agree in the cache, the store and the response
SameOutcome(a, b) ==
    a.cache = b.cache /\ a.store = b.store /\ a.response = b.response

\* C25: with debug set, a write to the log file that fails changes nothing
\* in what configure, define-features, train and predict do: the cache, the
\* store and the response are those of the call whose writes succeed.
C25_LogFailureNotFatal ==
    \A name \in SetupNames(store), log_fail \in LogSteps :
        /\ SameOutcome(setup(model_cache, store, name, DebugSetup.estimator_args,
                             DebugSetup.scaler_args, DebugSetup.execution_args,
                             DebugSetup.dim_reduction, DebugSetup.dim_reduction_args,
                             log_fail),
                       setup(model_cache, store, name, DebugSetup.estimator_args,
                             DebugSetup.scaler_args, DebugSetup.execution_args,
                             DebugSetup.dim_reduction, DebugSetup.dim_reduction_args,
                             0))
        /\ SameOutcome(set_features(model_cache, store, name, OneTarget, log_fail),
                       set_features(model_cache, store, name, OneTarget, 0))
        /\ \A fitOk \in BOOLEAN :
            SameOutcome(fit(model_cache, store, name, Len(OneTarget), fitOk, "0.900",
                            log_fail),
                        fit(model_cache, store, name, Len(OneTarget), fitOk, "0.900", 0))
        /\ \A load_script \in BOOLEAN :
            SameOutcome(predict(model_cache, store, name, load_script, "predict",
                                Len(SelectSeq(OneTarget, IsKept)), OneRow, log_fail),
                        predict(model_cache, store, name, load_script, "predict",
                                Len(SelectSeq(OneTarget, IsKept)), OneRow, 0))

(***************************************************************************)
(* The rows predict returns: a served model is asked for the predictions   *)
(* of one request, the first time on a miss and then on a hit              *)
(***************************************************************************)
KeyNames == {"k1", "k2"}
FeatureStrings == {"x1", "x2"}

\* The requests of up to MaxRows rows; keys and feature strings may repeat
RowRequests ==
    UNION {[1..n -> {RequestRow(k, x) : k \in KeyNames, x \in FeatureStrings}] :
             n \in 1..MaxRows}

\* The state of InitServing, and the request the process is sent
InitPredict ==
    /\ model_cache = <<>>
    /\ store = [n \in ServedNames |->
                  IF n = NameOrder[1] THEN DebugSnapshot(n)
                  ELSE IF n = NameOrder[2] THEN UntrainedSnapshot(n)
                  ELSE Snapshot(n)]
    /\ response = NoResponse
    /\ nCalls = 0
    /\ trained = ServedNames \ {NameOrder[2]}
    /\ accessed \in {<<[kind |-> "predict", name |-> n, load_script |-> l,
                        variant |-> v, request_rows |-> r]>> :
                       n \in ServedNames, l \in BOOLEAN, v \in Variants,
                       r \in RowRequests}
    /\ evicted = <<>>
    /\ calls = <<>>
    /\ log_no = 0
    /\ logfiles = {}

\* The request of the state
Request == accessed[1]

PredictRows ==
    /\ nCalls < MaxCalls
    /\ \E request_rows \in {Request.request_rows} :
           Finish(predict(model_cache, store, Request.name, Request.load_script,
                          Request.variant, Len(SelectSeq(OneTarget, IsKept)),
                          request_rows, 0))

NextPredict == PredictRows
SpecPredict == InitPredict /\ [][NextPredict]_vars

\* C22: predict from a chart expression on a trained model returns one
\* result per request row, the i-th result being the prediction for the i-th
\* row.
C22_PositionalAligned ==
    (response.op = "predict" /\ response.ok)
        => /\ Len(response.rows) = Len(Request.request_rows)
           /\ \A i \in 1..Len(Request.request_rows) :
                response.rows[i] = <<Request.variant, Request.request_rows[i].n_features>>

C22_Witness ==
    /\ response.op = "predict" /\ response.ok
    /\ Len(response.rows) = MaxRows
    /\ response.rows[1] # response.rows[MaxRows]

\* C23: predict from the load script on a trained model returns one row per
\* request row, with the model name, the key of the row and the prediction
\* for the row, and without the feature string, whatever the keys, repeated
\* keys included.
C23_KeyedOneRowEach ==
    (response.op = "predict_keyed" /\ response.ok)
        => /\ Len(response.rows) = Len(Request.request_rows)
           /\ \A i \in 1..Len(Request.request_rows) :
                response.rows[i] =
                    [model_name |-> Request.name,
                     key |-> Request.request_rows[i].key,
                     result |-> <<Request.variant, Request.request_rows[i].n_features>>]

(***************************************************************************)
(* The execution parameters of configure: a new process is sent one        *)
(* configure request, and sent it again                                    *)
(***************************************************************************)
\* The values a request gives the options
ExecutionPairs ==
    {<<"overwrite", "true">>, <<"overwrite", "false">>, <<"test_size", "0.5">>,
     <<"test_size", "0.25">>, <<"random_state", "7">>, <<"compress", "9">>,
     <<"retain_data", "True">>, <<"debug", "true">>, <<"debug", "false">>}

\* The execution_args of a request: any of the options, each at most once
ExecutionArgs ==
    {a \in SUBSET ExecutionPairs : \A p, q \in a : p[1] = q[1] => p = q}

InitConfigure ==
    /\ model_cache = <<>>
    /\ store = <<>>
    /\ response = NoResponse
    /\ nCalls = 0
    /\ trained = {}
    /\ accessed \in {<<[kind |-> "setup", name |-> NameOrder[1],
                        execution_args |-> e]>> : e \in ExecutionArgs}
    /\ evicted = <<>>
    /\ calls = <<>>
    /\ log_no = 0
    /\ logfiles = {}

Configure ==
    /\ nCalls < MaxCalls
    /\ \E execution_args \in {Request.execution_args} :
           Finish(setup(model_cache, store, Request.name, ValidSetup.estimator_args,
                        ValidSetup.scaler_args, execution_args,
                        ValidSetup.dim_reduction, ValidSetup.dim_reduction_args, 0))

NextConfigure == Configure
SpecConfigure == InitConfigure /\ [][NextConfigure]_vars

\* The settings of the model of the request, as saved
Settings == store[Request.name]

\* C24: configure without execution options saves overwrite=false,
\* test_size=0.33, random_state=42, compress=3, retain_data=false and
\* debug=false; an option that is supplied takes its value and every option
\* that is not supplied keeps its default.
C24_ExecutionDefaults ==
    (response.op = "setup" /\ response.ok)
        => LET e == Request.execution_args
               flag(k) == "true" = Lower(Arg(e, k))
           IN  /\ Get(model_cache, Request.name) = Settings
               /\ Settings.overwrite = IF HasArg(e, "overwrite") THEN flag("overwrite") ELSE FALSE
               /\ Settings.test_size = IF <<"test_size", "0.5">> \in e THEN 50
                                       ELSE IF <<"test_size", "0.25">> \in e THEN 25
                                       ELSE 33
               /\ Settings.random_state = IF <<"random_state", "7">> \in e THEN 7 ELSE 42
               /\ Settings.compress = IF <<"compress", "9">> \in e THEN 9 ELSE 3
               /\ Settings.retain_data = IF HasArg(e, "retain_data") THEN flag("retain_data") ELSE FALSE
               /\ Settings.debug = IF HasArg(e, "debug") THEN flag("debug") ELSE FALSE

C24_Witness ==
    /\ response.op = "setup" /\ response.ok
    /\ Request.execution_args = {<<"overwrite", "true">>, <<"test_size", "0.25">>}
    /\ Settings.overwrite /\ Settings.test_size = 25
    /\ ~Settings.retain_data /\ Settings.compress = 3

(***************************************************************************)
(* The cache against the snapshots                                         *)
(***************************************************************************)
\* Two models with the same configuration, Feature Contract, pipeline and
\* score; the column sort_order of get_features is left out of account
SameModel(a, b) ==
    /\ [a EXCEPT !.features_df = NoFeatures, !.pipe = NoPipe, !.estimation_step = 0,
                 !.score = Unset]
         = [b EXCEPT !.features_df = NoFeatures, !.pipe = NoPipe, !.estimation_step = 0,
                     !.score = Unset]
    /\ a.features_df.defined = b.features_df.defined
    /\ a.features_df.rows = b.features_df.rows
    /\ a.pipe = b.pipe /\ a.estimation_step = b.estimation_step
    /\ a.score = b.score

\* C26: in every state of sequential calls, each cached model equals what a
\* load of its snapshot returns: configuration, Feature Contract, fitted
\* pipeline and score.
C26_CacheEqualsSnapshot ==
    \A i \in 1..Len(model_cache) :
        /\ load(store, model_cache[i].key).ok
        /\ SameModel(model_cache[i].value, load(store, model_cache[i].key).model)

\* C30: a train that fails (unknown estimator, a failure of fitting or of
\* saving) leaves the model as it was before the call, in the cache and in
\* the store; the target, excluded and identifier rows stay in the Feature
\* Contract of the cached model.
C30_FailedTrainChangesNothing ==
    [][(/\ IsCall
        /\ response'.op = "fit"
        /\ ~response'.ok
        /\ Known(model_cache, store, response'.name))
        => (/\ store' = store
            /\ Resolve(model_cache', store', response'.name)
                 = Resolve(model_cache, store, response'.name))]_vars

\* The stages the claim gives the pipeline of model m, and its estimation step
StagesOk(m) ==
    IF m.dim_reduction
    THEN m.pipe.steps = <<"preprocessor", "reduction", "estimator">> /\ m.estimation_step = 2
    ELSE m.pipe.steps = <<"preprocessor", "estimator">> /\ m.estimation_step = 1

\* A model a train can succeed on: a Feature Contract with a target and a
\* feature, a scaler, and an estimator and a reduction the registries have
Trainable(m) ==
    /\ m.features_df.defined /\ TargetOk(m)
    /\ SelectSeq(m.features_df.rows, IsKept) # <<>>
    /\ m.scaler # Unset /\ m.estimator \in algorithms
    /\ m.dim_reduction => m.reduction \in decomposers

\* C28: a train gives a model without reduction the pipeline [preprocessor,
\* estimator] with estimation step 1 and a model with reduction the pipeline
\* [preprocessor, reduction, estimator] with estimation step 2; no model ever
\* has a pipeline with other stages.
C28_PipelineStages ==
    /\ \A m \in AllModels : m.pipe.built => StagesOk(m)
    /\ \A name \in DOMAIN store :
        LET m == Resolve(model_cache, store, name)
            o == fit(model_cache, store, name, Len(m.features_df.rows), TRUE, "0.900", 0)
        IN  Trainable(m) => /\ o.response.ok
                            /\ o.store[name].pipe.built
                            /\ StagesOk(o.store[name])

\* C29: every name the cache holds has a snapshot in the store.
C29_CachedNamesHaveSnapshots == Keys(model_cache) \subseteq DOMAIN store

C29_Witness ==
    /\ Len(model_cache) = cache_limit
    /\ Keys(model_cache) \subseteq DOMAIN store
    /\ response.op = "fit" /\ ~response.ok

(***************************************************************************)
(* Configure of a name that has a model: a process with one trained model  *)
(* on disk is sent configure requests with and without overwrite           *)
(***************************************************************************)
OverwriteRequests ==
    {SetupRequest({<<"estimator", "RandomForestClassifier">>}, e, FALSE, {}) :
        e \in {{}, {<<"overwrite", "false">>}, {<<"overwrite", "true">>}}}

InitReconfigure ==
    /\ model_cache = <<>>
    /\ store = [n \in {NameOrder[1]} |-> Snapshot(n)]
    /\ response = NoResponse
    /\ nCalls = 0
    /\ trained = {NameOrder[1]}
    /\ accessed = <<>>
    /\ evicted = <<>>
    /\ calls = <<>>
    /\ log_no = 0
    /\ logfiles = {}

Reconfigure ==
    /\ nCalls < MaxCalls
    /\ \E name \in SetupNames(store), r \in OverwriteRequests :
           Finish(setup(model_cache, store, name, r.estimator_args, r.scaler_args,
                        r.execution_args, r.dim_reduction, r.dim_reduction_args, 0))

NextReconfigure ==
    \/ Reconfigure
    \/ CallSetFeatures
    \/ CallFit
    \/ CallPredict

SpecReconfigure == InitReconfigure /\ [][NextReconfigure]_vars

InitRetrain ==
    /\ model_cache = <<>>
    /\ store = [n \in {NameOrder[1]} |-> UntrainedSnapshot(n)]
    /\ response = NoResponse
    /\ nCalls = 0
    /\ trained = {}
    /\ accessed = <<>>
    /\ evicted = <<>>
    /\ calls = <<>>
    /\ log_no = 0
    /\ logfiles = {}

\* The call ends with outcome o and is added to the calls made
Record(o, features) ==
    /\ Apply(o)
    /\ accessed' = Append(accessed, [kind |-> o.response.op, name |-> o.response.name,
                                     ok |-> o.response.ok, features |-> features])
    /\ UNCHANGED <<evicted, calls>>

\* The models of the process: the calls name a model that has a snapshot, and
\* configure may also name the next unused name
RetrainNames == DOMAIN store

RecordedSetup ==
    /\ nCalls < MaxCalls
    /\ \E name \in SetupNames(store), r \in {ValidSetup} :
           Record(setup(model_cache, store, name, r.estimator_args, r.scaler_args,
                        r.execution_args, r.dim_reduction, r.dim_reduction_args, 0),
                  <<>>)

RecordedSetFeatures ==
    /\ nCalls < MaxCalls
    /\ \E name \in RetrainNames, f \in FeatureRequests :
           Record(set_features(model_cache, store, name, f, 0), f)

RecordedGetFeatures ==
    /\ nCalls < MaxCalls
    /\ \E name \in RetrainNames :
           Record(get_features(model_cache, store, name, 0), <<>>)

RecordedFit ==
    /\ nCalls < MaxCalls
    /\ \E name \in RetrainNames, width \in 1..MaxWidth, fitOk \in BOOLEAN,
          score \in Scores :
           Record(fit(model_cache, store, name, width, fitOk, score, 0), <<>>)

NextRetrain ==
    \/ RecordedSetup
    \/ RecordedSetFeatures
    \/ RecordedGetFeatures
    \/ RecordedFit

SpecRetrain == InitRetrain /\ [][NextRetrain]_vars

\* Call i was a successful train of model n
TrainedAt(i, n) ==
    accessed[i].kind = "fit" /\ accessed[i].name = n /\ accessed[i].ok

\* Call k was a successful define-features of model n with a target entry
ContractAt(k, n) ==
    /\ accessed[k].kind = "set_features" /\ accessed[k].name = n /\ accessed[k].ok
    /\ SelectSeq(accessed[k].features, IsTarget) # <<>>

\* C31: after a successful train of a model, a later train of the same model
\* succeeds only if a successful define-features call with a target entry was
\* made on the model in between; with no define-features in between the second
\* train fails.
C31_RetrainNeedsContract ==
    \A n \in Names : \A i, j \in 1..Len(accessed) :
        (i < j /\ TrainedAt(i, n) /\ TrainedAt(j, n))
            => \E k \in (i + 1)..(j - 1) : ContractAt(k, n)

\* train, a second train that fails, define-features with a target, and a
\* train that succeeds again
C31_Witness ==
    /\ Len(accessed) = 4
    /\ TrainedAt(1, NameOrder[1])
    /\ accessed[2].kind = "fit" /\ accessed[2].name = NameOrder[1] /\ ~accessed[2].ok
    /\ ContractAt(3, NameOrder[1])
    /\ TrainedAt(4, NameOrder[1])
    /\ store[NameOrder[1]].pipe.fitted
    /\ Targets(store[NameOrder[1]]) = <<>>

\* What C32 says of a step: a successful define-features on model n leaves the
\* snapshot and the cached model of n with the pipeline and the score that
\* `before` has, still counted as trained, and predict with rows of the width
\* of the new contract succeeds
ContractOnlyReplaced(n, before) ==
    LET m == store'[n]
    IN  /\ m.pipe = before.pipe /\ m.pipe.fitted
        /\ m.score = before.score
        /\ m = [before EXCEPT !.features_df = m.features_df]
        /\ n \in Keys(model_cache') /\ Get(model_cache', n) = m
        /\ n \in trained'
        /\ \A load_script \in BOOLEAN, variant \in Variants :
             predict(model_cache', store', n, load_script, variant,
                     Len(m.features_df.rows), OneRow, 0).response.ok

\* A step that is a successful define-features on model n
DefinesFeatures(n) ==
    /\ IsCall
    /\ response'.op = "set_features" /\ response'.ok /\ response'.name = n

\* C32: define-features on a trained model, one whose snapshot has the fitted
\* pipeline of an earlier train, replaces only the Feature Contract: pipeline
\* and score are kept in the cached and the persisted model, the model still
\* counts as trained and predict is accepted without a retrain.
C32_DefineKeepsTraining ==
    [][\A n \in DOMAIN store :
         (DefinesFeatures(n) /\ store[n].pipe.fitted /\ n \in trained)
             => ContractOnlyReplaced(n, store[n])]_vars

\* C32 for the model the call works on, the cached one if there is one:
\* define-features on a model with a fitted pipeline assigns features_df only,
\* and saves and caches that model.
C32_DefineKeepsResolved ==
    [][\A n \in DOMAIN store :
         (DefinesFeatures(n) /\ Resolve(model_cache, store, n).pipe.fitted)
             => ContractOnlyReplaced(n, Resolve(model_cache, store, n))]_vars

====
